---- MODULE Spec2Model ----
(***************************************************************************)
(* Model of the fitness-tracker metrics core (metrics.py, activity.py) and *)
(* of the per-session loop of app.py that composes it.                     *)
(*                                                                         *)
(* Python floats are modelled as exact rationals plus the IEEE specials:   *)
(*   [k |-> "fin", n |-> numerator, d |-> denominator > 0]  (reduced)      *)
(*   [k |-> "nan", ...]      [k |-> "inf", n |-> sign, ...]                *)
(* so every arithmetic step of the code is carried out exactly; rounding  *)
(* of the binary representation is not modelled.                           *)
(***************************************************************************)
EXTENDS Integers, Sequences, FiniteSets, TLC

VARIABLES pc, sess, weight, row, args, ret

vars == <<pc, sess, weight, row, args, ret>>

----------------------------------------------------------------------------
(* Float arithmetic *)

Abs(i) == IF i < 0 THEN -i ELSE i

RECURSIVE Gcd(_, _)
Gcd(a, b) == IF b = 0 THEN a ELSE Gcd(b, a % b)

\* the finite float n/d (d # 0), in lowest terms with a positive denominator
Rat(n, d) ==
    LET g == Gcd(Abs(n), Abs(d))
        s == IF d < 0 THEN -1 ELSE 1
    IN  [k |-> "fin", n |-> (s * n) \div g, d |-> (s * d) \div g]

Num(i) == Rat(i, 1)

NaN == [k |-> "nan", n |-> 0, d |-> 1]

Inf(sign) == [k |-> "inf", n |-> sign, d |-> 1]

isfinite(x) == x.k = "fin"

isnan(x) == x.k = "nan"

Sign(x) == IF x.n > 0 THEN 1 ELSE IF x.n < 0 THEN -1 ELSE 0

Neg(x) == IF isnan(x) THEN NaN ELSE [x EXCEPT !.n = -x.n]

Add(x, y) ==
    IF isnan(x) \/ isnan(y) THEN NaN
    ELSE IF x.k = "inf" /\ y.k = "inf" THEN (IF x.n = y.n THEN x ELSE NaN)
    ELSE IF x.k = "inf" THEN x
    ELSE IF y.k = "inf" THEN y
    ELSE LET g == Gcd(x.d, y.d)
         IN  Rat(x.n * (y.d \div g) + y.n * (x.d \div g), (x.d \div g) * y.d)

Sub(x, y) == Add(x, Neg(y))

Mul(x, y) ==
    IF isnan(x) \/ isnan(y) THEN NaN
    ELSE IF x.k = "inf" \/ y.k = "inf"
         THEN (IF Sign(x) * Sign(y) = 0 THEN NaN ELSE Inf(Sign(x) * Sign(y)))
    ELSE LET g1 == Gcd(Abs(x.n), y.d)
             g2 == Gcd(Abs(y.n), x.d)
         IN  Rat((x.n \div g1) * (y.n \div g2), (x.d \div g2) * (y.d \div g1))

\* float division as numpy does it: x/0 is +-inf, 0/0 is nan
Div(x, y) ==
    IF isnan(x) \/ isnan(y) THEN NaN
    ELSE IF y.k = "inf" THEN (IF x.k = "inf" THEN NaN ELSE Num(0))
    ELSE IF y.n = 0 THEN (IF Sign(x) = 0 THEN NaN ELSE Inf(Sign(x)))
    ELSE IF x.k = "inf" THEN Inf(Sign(x) * Sign(y))
    ELSE Mul(x, Rat(y.d, y.n))

\* comparisons: every comparison with nan is false
Lt(x, y) ==
    IF isnan(x) \/ isnan(y) THEN FALSE
    ELSE IF x.k = "inf" THEN x.n < 0 /\ ~(y.k = "inf" /\ y.n < 0)
    ELSE IF y.k = "inf" THEN y.n > 0
    ELSE x.n * y.d < y.n * x.d

Gt(x, y) == Lt(y, x)

Le(x, y) == ~isnan(x) /\ ~isnan(y) /\ ~Lt(y, x)

Ge(x, y) == Le(y, x)

\* Python's builtin max(a, b) / min(a, b): a unless b compares beyond it
pymax(a, b) == IF Gt(b, a) THEN b ELSE a

pymin(a, b) == IF Lt(b, a) THEN b ELSE a

\* numpy.maximum: propagates nan
np_maximum(a, b) == IF isnan(a) \/ isnan(b) THEN NaN ELSE IF Lt(a, b) THEN b ELSE a

\* Python's round() of the finite float n/d (d > 0): to nearest, ties to even
round(x) ==
    LET q == x.n \div x.d
        r == x.n % x.d
    IN  IF 2 * r < x.d THEN q
        ELSE IF 2 * r > x.d THEN q + 1
        ELSE IF q % 2 = 0 THEN q ELSE q + 1

----------------------------------------------------------------------------
(* metrics.py *)

\* A position log (sess.pos): the DataFrame's columns and its rows in file
\* order.  rows[i] = [timestamp |-> ms, latitude |-> lat, altitude |-> float].
\* All samples lie on one meridian (equal longitude); latitude is counted in
\* units of 1/6371000 rad, i.e. one metre of arc.
Lats(pos) == [i \in 1..Len(pos.rows) |-> pos.rows[i].latitude]

Stamps(pos) == [i \in 1..Len(pos.rows) |-> pos.rows[i].timestamp]

Alts(pos) == [i \in 1..Len(pos.rows) |-> pos.rows[i].altitude]

RECURSIVE np_sum(_)
np_sum(xs) == IF xs = <<>> THEN Num(0) ELSE Add(xs[1], np_sum(Tail(xs)))

RECURSIVE np_nansum(_)
np_nansum(xs) ==
    IF xs = <<>> THEN Num(0)
    ELSE IF isnan(xs[1]) THEN np_nansum(Tail(xs))
    ELSE Add(xs[1], np_nansum(Tail(xs)))

\* haversine on a common meridian: dl = 0, a = sin^2(dphi/2), c = |dphi|,
\* so R * c = 6371 km * |lat2 - lat1| / 6371000
haversine_distance_km(lat1, lat2) == Rat(6371 * Abs(lat2 - lat1), 6371000)

\* the time delta without its floor
time_delta_s_unfloored(ts1, ts2) == Rat(ts2 - ts1, 1000)

\* dt_s = np.maximum(1e-6, (ts[1:] - ts[:-1]) / 1000.0), one element
time_delta_s(ts1, ts2) == np_maximum(Rat(1, 1000000), Rat(ts2 - ts1, 1000))

track_distance_speed_from_gps(pos) ==
    LET lat == Lats(pos)
        ts == Stamps(pos)
        n == Len(lat)
    IN  IF n < 2
        THEN [total_km |-> Num(0), speed_ms |-> [i \in 1..n |-> Num(0)]]
        ELSE LET d_km == [i \in 1..(n - 1) |-> haversine_distance_km(lat[i], lat[i + 1])]
                 d_m == [i \in 1..(n - 1) |-> Mul(d_km[i], Num(1000))]
                 dt_s == [i \in 1..(n - 1) |-> time_delta_s(ts[i], ts[i + 1])]
                 speed_ms == <<Num(0)>> \o [i \in 1..(n - 1) |-> Div(d_m[i], dt_s[i])]
             IN  [total_km |-> np_nansum(d_km), speed_ms |-> speed_ms]

np_diff(xs) == [i \in 1..(Len(xs) - 1) |-> Sub(xs[i + 1], xs[i])]

\* the altitude delta itself, descents included
positive_part_signed(diff) == diff

\* one term of np.maximum(0.0, diffs)
positive_part(diff) == np_maximum(Num(0), diff)

elevation_gain_m(pos) ==
    IF ~pos.altitude THEN Num(0)
    ELSE LET diffs == np_diff(Alts(pos))
         IN  IF Len(diffs) > 0
             THEN np_sum([i \in 1..Len(diffs) |-> positive_part(diffs[i])])
             ELSE Num(0)

floors_from_gain(gain_m) == Div(gain_m, Num(3))

avg_speed_kmh(total_km, pos) ==
    LET ts == Stamps(pos)
    IN  IF Len(ts) < 2 THEN NaN
        ELSE LET duration_h == Rat(ts[Len(ts)] - ts[1], 3600000)
             IN  IF Le(duration_h, Num(0)) THEN NaN ELSE Div(total_km, duration_h)

minutes_from_pos(pos) ==
    LET ts == Stamps(pos)
    IN  IF Len(ts) < 2 THEN Num(0) ELSE Rat(ts[Len(ts)] - ts[1], 60000)

clamp(lo, hi, x) == pymax(lo, pymin(hi, x))

met_for_activity(activity, avg_speed_kmh_val) ==
    IF activity = "sitting/idle" THEN Rat(15, 10)
    ELSE IF activity = "walking"
         THEN clamp(Num(3), Num(5), Add(Num(3), Mul(Rat(4, 10), Sub(avg_speed_kmh_val, Num(3)))))
    ELSE IF activity = "running"
         THEN clamp(Num(7), Num(12), Add(Num(6), Mul(Rat(6, 10), avg_speed_kmh_val)))
    ELSE IF activity = "cycling"
         THEN clamp(Num(6), Num(12), Add(Num(2), Mul(Rat(5, 10), avg_speed_kmh_val)))
    ELSE IF activity = "stairs" THEN Num(8)
    ELSE Rat(35, 10)

\* the formula without the floor on the duration
calories_from_met_unfloored(met, minutes, weight_kg) ==
    Mul(Div(Mul(Mul(met, Rat(35, 10)), weight_kg), Num(200)), minutes)

calories_from_met(met, minutes, weight_kg) ==
    Mul(Div(Mul(Mul(met, Rat(35, 10)), weight_kg), Num(200)), pymax(Num(0), minutes))

\* the [0, 150) segment: 0.5 * (w / 150.0)
segment_below_150(w) == Mul(Rat(5, 10), Div(w, Num(150)))

\* the last segment's excess without its cap
extra_uncapped(w) == Sub(w, Num(600))

\* extra = min(w - 600.0, 900.0)
extra_above_600(w) == pymin(Sub(w, Num(600)), Num(900))

estimate_life_expectancy_gain(weekly_met_min) ==
    LET w == weekly_met_min
    IN  IF ~isfinite(w) \/ Le(w, Num(0)) THEN Num(0)
        ELSE IF Lt(w, Num(150)) THEN segment_below_150(w)
        ELSE IF Lt(w, Num(300))
             THEN Add(Num(1), Mul(Div(Sub(w, Num(150)), Num(150)), Num(2)))
        ELSE IF Lt(w, Num(600))
             THEN Add(Num(3), Mul(Div(Sub(w, Num(300)), Num(300)), Rat(12, 10)))
        ELSE LET extra == extra_above_600(w)
             IN  Add(Rat(42, 10), Mul(Div(extra, Num(900)), Rat(25, 10)))

----------------------------------------------------------------------------
(* activity.py *)

guess_activity(avg_kmh) ==
    IF ~isfinite(avg_kmh) \/ Lt(avg_kmh, Rat(15, 10)) THEN "sitting/idle"
    ELSE IF Lt(avg_kmh, Num(6)) THEN "walking"
    ELSE IF Lt(avg_kmh, Num(12)) THEN "running"
    ELSE "cycling"

RECURSIVE ema_upto(_, _, _)
ema_upto(values, alpha, i) ==
    IF i = 0 THEN <<>>
    ELSE IF i = 1 THEN <<values[1]>>
    ELSE LET y == ema_upto(values, alpha, i - 1)
         IN  Append(y, Add(Mul(alpha, values[i]), Mul(Sub(Num(1), alpha), y[i - 1])))

ema(values, alpha) == ema_upto(values, alpha, Len(values))

np_dot(a, b) == np_sum([i \in 1..Len(a) |-> Mul(a[i], b[i])])

np_mean(xs) == Div(np_sum(xs), Num(Len(xs)))

\* a loop body that decays toward rest instead of toward mean_tail
step_toward_zero(s, phi, mean_tail) == Mul(phi, s)

\* the loop body: s = phi * s + (1.0 - phi) * mean_tail
step(s, phi, mean_tail) == Add(Mul(phi, s), Mul(Sub(Num(1), phi), mean_tail))

\* for _ in range(steps): ...
RECURSIVE iterate(_, _, _, _)
iterate(s0, phi, mean_tail, steps) ==
    IF steps = 0 THEN s0
    ELSE step(iterate(s0, phi, mean_tail, steps - 1), phi, mean_tail)

\* The forecaster's speed series is counted in units of 1e-6 km/h, so that the
\* regression's 1e-12 (km/h)^2 guard is exactly one squared unit.
regression_guard == Num(1)

\* if speed_kmh.size < 6 or dt_sec <= 0
insufficient_data(speed_kmh, dt_sec) == Len(speed_kmh) < 6 \/ Le(dt_sec, Num(0))

smoothing_alpha(dt_sec) == pymin(Rat(5, 10), pymax(Rat(5, 100), Div(dt_sec, Num(5))))

step_count(dt_sec, horizon_sec) ==
    LET r == round(Div(Num(horizon_sec), pymax(Rat(1, 10), dt_sec)))
    IN  IF r > 1 THEN r ELSE 1

tail_mean(smooth) ==
    LET lo == IF Len(smooth) - 50 > 0 THEN Len(smooth) - 50 ELSE 0
    IN  np_mean(SubSeq(smooth, lo + 1, Len(smooth)))

\* lines 29-37 of predict_speed_next_kmh: the locals when the loop is entered
fit(speed_kmh, dt_sec, horizon_sec) ==
    LET alpha == smoothing_alpha(dt_sec)
        smooth == ema(speed_kmh, alpha)
        x == Tail(smooth)
        y == SubSeq(smooth, 1, Len(smooth) - 1)
        denom == Add(np_dot(y, y), regression_guard)
        phi == Div(np_dot(y, x), denom)
    IN  [alpha |-> alpha, smooth |-> smooth, phi |-> phi,
         steps |-> step_count(dt_sec, horizon_sec),
         s |-> smooth[Len(smooth)], mean_tail |-> tail_mean(smooth)]

\* the result without the final clamp
unclamped(s) == s

\* return max(0.0, s)
clamped(s) == pymax(Num(0), s)

predict_speed_next_kmh(speed_kmh, dt_sec, horizon_sec) ==
    IF insufficient_data(speed_kmh, dt_sec) THEN NaN
    ELSE LET f == fit(speed_kmh, dt_sec, horizon_sec)
         IN  clamped(iterate(f.s, f.phi, f.mean_tail, f.steps))

----------------------------------------------------------------------------
(* app.py: the per-session loop *)

\* floors_per_min = (floors / minutes) if minutes > 0 else 0.0
floors_per_minute(floors, minutes) ==
    IF Gt(minutes, Num(0)) THEN Div(floors, minutes) ELSE Num(0)

\* the override without its speed condition
classify_any_speed(avg_kmh, floors_per_min) ==
    IF isfinite(floors_per_min) /\ Ge(floors_per_min, Num(1))
    THEN "stairs"
    ELSE guess_activity(avg_kmh)

\* the stairs override in front of the speed bands (act_raw)
classify(avg_kmh, floors_per_min) ==
    IF isfinite(floors_per_min) /\ Ge(floors_per_min, Num(1))
       /\ (~isfinite(avg_kmh) \/ Lt(avg_kmh, Num(6)))
    THEN "stairs"
    ELSE guess_activity(avg_kmh)

normalize_activity(name) ==
    IF name \in {"stairs", "stair", "stairclimb", "stair climbing"} THEN "stairs"
    ELSE IF name \in {"running", "run", "jogging"} THEN "running"
    ELSE IF name \in {"walking", "walk"} THEN "walking"
    ELSE IF name \in {"sitting/idle", "idle", "rest", "sitting"} THEN "sitting"
    ELSE "walking"

estimated_steps(act, km, floors) ==
    IF act = "walking" THEN round(Mul(km, Num(1300)))
    ELSE IF act = "running" THEN round(Mul(km, Num(1000)))
    ELSE IF act = "stairs" THEN round(Mul(floors, Num(16)))
    ELSE round(Mul(km, Num(1200)))

RECURSIVE SortInts(_)
SortInts(xs) ==
    IF xs = <<>> THEN <<>>
    ELSE LET i == CHOOSE j \in 1..Len(xs) : \A l \in 1..Len(xs) : xs[j] <= xs[l]
         IN  <<xs[i]>> \o SortInts(SubSeq(xs, 1, i - 1) \o SubSeq(xs, i + 1, Len(xs)))

\* np.median of an integer array; nan when it is empty
np_median(xs) ==
    LET o == SortInts(xs)
        n == Len(o)
    IN  IF n = 0 THEN NaN
        ELSE IF n % 2 = 1 THEN Num(o[(n + 1) \div 2])
        ELSE Rat(o[n \div 2] + o[n \div 2 + 1], 2)

sample_interval_sec(pos) ==
    LET ts == Stamps(pos)
        diffs == [i \in 1..(Len(ts) - 1) |-> ts[i + 1] - ts[i]]
    IN  pymax(Rat(1, 10), Div(np_median(diffs), Num(1000)))

\* the body of `for sess in sessions` for one session with a position log:
\* the summary row it appends (and the speed series kept for the plots).
\* Tracks of the model are shorter than 6 samples, so the forecast of a row is
\* always the early return and no unit of the series enters it.
summary_row(pos, weight_kg) ==
    LET track == track_distance_speed_from_gps(pos)
        total_km == track.total_km
        speed_kmh == [i \in 1..Len(track.speed_ms) |-> Mul(track.speed_ms[i], Rat(36, 10))]
        gain_m == elevation_gain_m(pos)
        floors == floors_from_gain(gain_m)
        avg_kmh == avg_speed_kmh(total_km, pos)
        minutes == minutes_from_pos(pos)
        floors_per_min == floors_per_minute(floors, minutes)
        act_raw == classify(avg_kmh, floors_per_min)
        act == normalize_activity(act_raw)
        met == met_for_activity(act, avg_kmh)
        est_steps == estimated_steps(act, total_km, floors)
        kcal == calories_from_met(met, minutes, weight_kg)
        dt_sec == sample_interval_sec(pos)
        pred30 == predict_speed_next_kmh(speed_kmh, dt_sec, 30)
    IN  [activity |-> act, act_raw |-> act_raw, duration_min |-> minutes,
         distance_km |-> total_km, elevation_gain_m |-> gain_m, floors |-> floors,
         floors_per_min |-> floors_per_min, avg_speed_kmh |-> avg_kmh, met |-> met,
         met_minutes |-> Mul(met, minutes), calories_kcal |-> kcal,
         estimated_steps |-> est_steps, pred_next_30s_speed_kmh |-> pred30,
         speed_kmh |-> speed_kmh]

----------------------------------------------------------------------------
(* Bounds and input sets *)

MaxTrackLen == 3

Timestamps == {0, 60000}

Latitudes == {0, 20, 150}

Altitudes == {Num(0), Num(3)}

Samples == [timestamp : Timestamps, latitude : Latitudes, altitude : Altitudes]

Tracks == UNION {[1..n -> Samples] : n \in 0..MaxTrackLen}

NoPos == [loaded |-> FALSE, altitude |-> FALSE, rows |-> <<>>]

Sessions == {NoPos} \cup [loaded : {TRUE}, altitude : BOOLEAN, rows : Tracks]

\* st.number_input('Weight (kg)', min_value=30.0, max_value=200.0, value=75.0)
WeightInputs == {Num(30), Num(200)}

NoRow == [activity |-> "none"]

NoCall == [fn |-> "none"]

----------------------------------------------------------------------------
(* The analysis run of app.py *)

Init ==
    /\ pc = "form"
    /\ sess = NoPos
    /\ weight = Num(75)
    /\ row = NoRow
    /\ args = NoCall
    /\ ret = NoCall

\* the form is submitted with a weight the number input accepts
Analyze ==
    /\ pc = "form"
    /\ \E w \in WeightInputs : weight' = w
    /\ pc' = "next"
    /\ UNCHANGED <<sess, row, args, ret>>

\* the loop takes the next session the loader produced
NextSession ==
    /\ pc = "next"
    /\ \E x \in Sessions : sess' = x
    /\ row' = NoRow
    /\ pc' = "body"
    /\ UNCHANGED <<weight, args, ret>>

\* if sess.pos is None or sess.pos.empty: continue
SkipSession ==
    /\ pc = "body"
    /\ (~sess.loaded \/ sess.rows = <<>>)
    /\ sess' = NoPos
    /\ pc' = "next"
    /\ UNCHANGED <<weight, row, args, ret>>

\* the loop body: summary_rows.append({...})
ProcessSession ==
    /\ pc = "body"
    /\ sess.loaded /\ sess.rows # <<>>
    /\ row' = summary_row(sess, weight)
    /\ pc' = "appended"
    /\ UNCHANGED <<sess, weight, args, ret>>

\* back to the loop head; sessions are independent, so the model keeps only
\* the row of the session at hand
Continue ==
    /\ pc = "appended"
    /\ sess' = NoPos
    /\ row' = NoRow
    /\ pc' = "next"
    /\ UNCHANGED <<weight, args, ret>>

\* the loop ends; the script waits for the next submission
Finish ==
    /\ pc = "next"
    /\ pc' = "form"
    /\ UNCHANGED <<sess, weight, row, args, ret>>

Next == Analyze \/ NextSession \/ SkipSession \/ ProcessSession \/ Continue \/ Finish

Spec == Init /\ [][Next]_vars

----------------------------------------------------------------------------
(* The classifier applied to every pair (avg_speed_kmh, floors_per_minute) *)

NonFinite == {NaN, Inf(1), Inf(-1)}

AvgInputs == NonFinite \cup {Rat(t, 10) : t \in {-10, 0, 14, 15, 16, 59, 60, 61, 119, 120, 121, 150}}

FpmInputs == NonFinite \cup {Rat(t, 10) : t \in {-10, 0, 9, 10, 11, 20}}

ClassifyInit ==
    /\ pc = "call"
    /\ args \in [fn : {"classify"}, avg_kmh : AvgInputs, floors_per_min : FpmInputs]
    /\ ret = NoCall
    /\ sess = NoPos /\ weight = Num(75) /\ row = NoRow

ApplyClassify ==
    /\ pc = "call"
    /\ args.fn = "classify"
    /\ ret' = [fn |-> "classify", label |-> classify(args.avg_kmh, args.floors_per_min)]
    /\ pc' = "return"
    /\ UNCHANGED <<sess, weight, row, args>>

ClassifySpec == ClassifyInit /\ [][ApplyClassify]_vars

----------------------------------------------------------------------------
(* The energy model applied to every label, speed, duration and weight *)

ActivityInputs == {"sitting/idle", "walking", "running", "cycling", "stairs", "sitting"}

SpeedInputs == {NaN} \cup {Num(v) : v \in {0, 3, 5, 8, 15, 30}}

MinuteInputs == {Num(-1), Num(0), Rat(1, 2), Num(30)}

\* the core takes any float as weight_kg
WeightAnyInputs == {NaN, Inf(1), Num(-75), Num(0), Num(30), Num(75), Num(200)}

EnergyInit ==
    /\ pc = "call"
    /\ args \in [fn : {"energy"}, activity : ActivityInputs, avg_kmh : SpeedInputs,
                 minutes : MinuteInputs, weight_kg : WeightAnyInputs]
    /\ ret = NoCall
    /\ sess = NoPos /\ weight = Num(75) /\ row = NoRow

ApplyMet ==
    /\ pc = "call"
    /\ args.fn = "energy"
    /\ ret' = [fn |-> "met", met |-> met_for_activity(args.activity, args.avg_kmh)]
    /\ pc' = "met"
    /\ UNCHANGED <<sess, weight, row, args>>

ApplyCalories ==
    /\ pc = "met"
    /\ ret' = [fn |-> "calories", met |-> ret.met,
               kcal |-> calories_from_met(ret.met, args.minutes, args.weight_kg)]
    /\ pc' = "return"
    /\ UNCHANGED <<sess, weight, row, args>>

EnergyNext == ApplyMet \/ ApplyCalories

EnergySpec == EnergyInit /\ [][EnergyNext]_vars

----------------------------------------------------------------------------
(* The life-expectancy curve applied to pairs of weekly MET-minute totals *)

WeeklyStep == 25

MaxWeekly == 1650

WeeklyInputs ==
    NonFinite
    \cup {Num(w) : w \in {-75, 1, 149, 151, 299, 301, 599, 601, 1499, 1501}}
    \cup {Num(w) : w \in {v \in 0..MaxWeekly : v % WeeklyStep = 0}}

LifeInit ==
    /\ pc = "call"
    /\ args \in [fn : {"life"}, w1 : WeeklyInputs, w2 : WeeklyInputs]
    /\ ret = NoCall
    /\ sess = NoPos /\ weight = Num(75) /\ row = NoRow

ApplyLifeGain ==
    /\ pc = "call"
    /\ args.fn = "life"
    /\ ret' = [fn |-> "life", g1 |-> estimate_life_expectancy_gain(args.w1),
               g2 |-> estimate_life_expectancy_gain(args.w2)]
    /\ pc' = "return"
    /\ UNCHANGED <<sess, weight, row, args>>

LifeSpec == LifeInit /\ [][ApplyLifeGain]_vars

----------------------------------------------------------------------------
(* The forecaster applied to speed series *)

\* Exact arithmetic keeps every intermediate value within TLC's 32-bit
\* integers only while the fitted coefficient is applied a bounded number of
\* times to a series with few denominators.  Two families of calls are drawn:
\*   - constant series, with every branch of alpha and long iterations;
\*   - arbitrary series over SpeedValues at alpha = 0.5, one pass of the loop.
MaxSeriesLen == 7

MaxSpeed == 3

SpeedValues == {Num(-2), Num(0), Num(1), Num(8)}

\* sample intervals, in seconds
ConstantDts == {Rat(1, 5), Num(1), Num(3)}

GeneralDts == {Num(-1), Num(0), Num(3)}

ConstantSeries == {[i \in 1..n |-> Num(c)] : n \in 6..MaxSeriesLen, c \in 0..MaxSpeed}

GeneralSeries == UNION {[1..n -> SpeedValues] : n \in {0, 5, 6}}

ForecastCalls ==
    [fn : {"predict"}, speed_kmh : ConstantSeries, dt_sec : ConstantDts, horizon_sec : {0, 5, 30}]
    \cup [fn : {"predict"}, speed_kmh : GeneralSeries, dt_sec : GeneralDts, horizon_sec : {-5, 0, 3}]

ForecastInit ==
    /\ pc = "call"
    /\ args \in ForecastCalls
    /\ ret = NoCall
    /\ sess = NoPos /\ weight = Num(75) /\ row = NoRow

\* the early return of predict_speed_next_kmh
ReturnInsufficient ==
    /\ pc = "call"
    /\ args.fn = "predict"
    /\ insufficient_data(args.speed_kmh, args.dt_sec)
    /\ ret' = [fn |-> "predict", fitted |-> FALSE, value |-> NaN]
    /\ pc' = "return"
    /\ UNCHANGED <<sess, weight, row, args>>

\* smoothing, regression, step count, start state and baseline
Fit ==
    /\ pc = "call"
    /\ args.fn = "predict"
    /\ ~insufficient_data(args.speed_kmh, args.dt_sec)
    /\ ret' = [fn |-> "predict", fitted |-> TRUE, done |-> 0,
               locals |-> fit(args.speed_kmh, args.dt_sec, args.horizon_sec)]
    /\ pc' = "loop"
    /\ UNCHANGED <<sess, weight, row, args>>

\* one pass of the loop
Iterate ==
    /\ pc = "loop"
    /\ ret.done < ret.locals.steps
    /\ ret' = [ret EXCEPT !.done = @ + 1,
                          !.locals.s = step(@, ret.locals.phi, ret.locals.mean_tail)]
    /\ UNCHANGED <<pc, sess, weight, row, args>>

ReturnForecast ==
    /\ pc = "loop"
    /\ ret.done = ret.locals.steps
    /\ ret' = [fn |-> "predict", fitted |-> TRUE, done |-> ret.done,
               locals |-> ret.locals, value |-> clamped(ret.locals.s)]
    /\ pc' = "return"
    /\ UNCHANGED <<sess, weight, row, args>>

ForecastNext == ReturnInsufficient \/ Fit \/ Iterate \/ ReturnForecast

ForecastSpec == ForecastInit /\ [][ForecastNext]_vars

----------------------------------------------------------------------------
(* Properties *)

\* the speed band of the classifier's table, written from its intervals
SpeedBand(avg) ==
    IF ~isfinite(avg) \/ Lt(avg, Rat(15, 10)) THEN "sitting/idle"
    ELSE IF Ge(avg, Rat(15, 10)) /\ Lt(avg, Num(6)) THEN "walking"
    ELSE IF Ge(avg, Num(6)) /\ Lt(avg, Num(12)) THEN "running"
    ELSE "cycling"

SlowOrUnknown(avg) == ~isfinite(avg) \/ Lt(avg, Num(6))

\* C1 as stated: the label is stairs exactly when floors_per_minute >= 1.0 and
\* avg_speed_kmh is non-finite or < 6.0, and the speed band otherwise; stairs
\* is never produced at a (finite) avg_speed_kmh >= 6.0.
C1_StairsIffFloorsAtLeastOne ==
    pc = "return" =>
        /\ ret.label = (IF Ge(args.floors_per_min, Num(1)) /\ SlowOrUnknown(args.avg_kmh)
                        THEN "stairs" ELSE SpeedBand(args.avg_kmh))
        /\ ((isfinite(args.avg_kmh) /\ Ge(args.avg_kmh, Num(6))) => ret.label # "stairs")

\* C1 amended: the label is stairs exactly when floors_per_minute is finite
\* and >= 1.0 and avg_speed_kmh is non-finite or < 6.0; in every other case
\* (an infinite floors_per_minute included) it is the speed band; stairs is
\* never produced at a (finite) avg_speed_kmh >= 6.0.
C1_StairsIffFiniteFloorsAtLeastOne ==
    pc = "return" =>
        /\ ret.label = (IF isfinite(args.floors_per_min) /\ Ge(args.floors_per_min, Num(1))
                           /\ SlowOrUnknown(args.avg_kmh)
                        THEN "stairs" ELSE SpeedBand(args.avg_kmh))
        /\ ((isfinite(args.avg_kmh) /\ Ge(args.avg_kmh, Num(6))) => ret.label # "stairs")

\* the override fires over the walking band
C1_Witness ==
    /\ pc = "return"
    /\ ret.label = "stairs"
    /\ SpeedBand(args.avg_kmh) = "walking"
    /\ args.floors_per_min = Num(2)

\* C2: the MET stored in a session's summary is the energy model's MET for
\* the label the classifier produced for that session (1.5 for idle, the
\* cycling formula for cycling, ...), and never the 3.5 fallback.
C2_MetOfClassifiedLabel ==
    pc = "appended" =>
        /\ row.met = met_for_activity(row.act_raw, row.avg_speed_kmh)
        /\ row.met # Rat(35, 10)

\* C3 as stated: calories >= 0 whenever minutes >= 0, and exactly 0 whenever
\* minutes <= 0, for every MET of the energy model and every weight_kg.
C3_CaloriesNonNegative ==
    pc = "return" =>
        /\ (Ge(args.minutes, Num(0)) => Ge(ret.kcal, Num(0)))
        /\ (Le(args.minutes, Num(0)) => ret.kcal = Num(0))

\* C3 amended: for every MET of the energy model and every finite
\* weight_kg >= 0, calories >= 0 whenever minutes >= 0, and exactly 0 whenever
\* minutes <= 0.
C3_CaloriesNonNegativeForWeight ==
    (pc = "return" /\ isfinite(args.weight_kg) /\ Ge(args.weight_kg, Num(0))) =>
        /\ (Ge(args.minutes, Num(0)) => Ge(ret.kcal, Num(0)))
        /\ (Le(args.minutes, Num(0)) => ret.kcal = Num(0))

\* calories(met(walking, 5.0) = 3.8, 30 min, 75 kg) = 149.625
C3_Witness ==
    /\ pc = "return"
    /\ args.activity = "walking" /\ args.avg_kmh = Num(5)
    /\ args.minutes = Num(30) /\ args.weight_kg = Num(75)
    /\ ret.met = Rat(38, 10)
    /\ ret.kcal = Rat(149625, 1000)

\* C4: the speed series has the track's length, starts with 0, and holds only
\* finite values >= 0, also across duplicate or decreasing timestamps; a track
\* of fewer than 2 samples has distance 0 and an all-zero series.  The series
\* a processed session keeps is this one, in km/h.
C4_SpeedSeriesFinite ==
    LET r == track_distance_speed_from_gps(sess)
        n == Len(sess.rows)
    IN  /\ Len(r.speed_ms) = n
        /\ (n > 0 => r.speed_ms[1] = Num(0))
        /\ \A i \in 1..n : isfinite(r.speed_ms[i]) /\ Ge(r.speed_ms[i], Num(0))
        /\ (n < 2 => r.total_km = Num(0) /\ \A i \in 1..n : r.speed_ms[i] = Num(0))
        /\ (pc = "appended" =>
               /\ Len(row.speed_kmh) = n
               /\ \A i \in 1..n : isfinite(row.speed_kmh[i]) /\ Ge(row.speed_kmh[i], Num(0)))

\* a processed track that moves across a duplicate and across a decreasing timestamp
C4_Witness ==
    /\ pc = "appended"
    /\ Len(sess.rows) = 3
    /\ sess.rows[2].timestamp = sess.rows[1].timestamp
    /\ sess.rows[3].timestamp < sess.rows[2].timestamp
    /\ Gt(row.speed_kmh[2], Num(0))
    /\ Gt(row.speed_kmh[3], Num(0))

\* the sum over consecutive pairs of max(0, altitude[i+1] - altitude[i])
RECURSIVE ClimbSum(_, _)
ClimbSum(alt, i) ==
    IF i >= Len(alt) THEN Num(0)
    ELSE Add(IF Gt(alt[i + 1], alt[i]) THEN Sub(alt[i + 1], alt[i]) ELSE Num(0),
             ClimbSum(alt, i + 1))

C6_LifeGainMonotone ==
    pc = "return" =>
        /\ ((~isfinite(args.w1) \/ Le(args.w1, Num(0))) => ret.g1 = Num(0))
        /\ ((isfinite(args.w1) /\ isfinite(args.w2) /\ Gt(args.w1, Num(0))
             /\ Le(args.w1, args.w2) /\ Le(args.w2, Num(1500))) => Le(ret.g1, ret.g2))
        /\ ((isfinite(args.w1) /\ Ge(args.w1, Num(1500))) => ret.g1 = Rat(67, 10))

C6_Witness ==
    /\ pc = "return"
    /\ args.w1 = Num(599) /\ args.w2 = Num(1501)
    /\ Lt(ret.g1, ret.g2)
    /\ ret.g2 = Rat(67, 10)

\* C7: the gain at 150 is 1.0 and the curve is continuous there: the value
\* the [0, 150) segment reaches at 150 is the value returned at 150.
C7_ContinuousAt150 ==
    (pc = "return" /\ args.w1 = Num(150)) =>
        /\ ret.g1 = Num(1)
        /\ segment_below_150(args.w1) = ret.g1

IsNonNegative(series) == \A i \in 1..Len(series) : Ge(series[i], Num(0))

IsConstant(series) == \A i \in 1..Len(series) : series[i] = series[1]

\* C8: the result is the not-a-number sentinel when the series has fewer than
\* 6 elements or dt_sec <= 0, and otherwise a number >= 0.
C8_SentinelOrNonNegative ==
    pc = "return" =>
        IF Len(args.speed_kmh) < 6 \/ Le(args.dt_sec, Num(0))
        THEN isnan(ret.value)
        ELSE isfinite(ret.value) /\ Ge(ret.value, Num(0))

\* a forecast whose iteration ended below zero and was clamped
C8_Witness ==
    /\ pc = "return"
    /\ Len(args.speed_kmh) >= 6 /\ Gt(args.dt_sec, Num(0))
    /\ Lt(ret.locals.s, Num(0))
    /\ ret.value = Num(0)

\* C9: for a constant series c >= 0 of length >= 6 and dt_sec > 0 the smoothed
\* series, the start state and mean_tail are c, the state stays c in every
\* pass of the loop, and c is returned.
C9_ConstantSeriesFixedPoint ==
    (/\ pc \in {"loop", "return"}
     /\ ret.fitted
     /\ IsConstant(args.speed_kmh)
     /\ IsNonNegative(args.speed_kmh)) =>
        LET c == args.speed_kmh[1]
        IN  /\ \A i \in 1..Len(ret.locals.smooth) : ret.locals.smooth[i] = c
            /\ ret.locals.mean_tail = c
            /\ ret.locals.s = c
            /\ (pc = "return" => ret.value = c)

\* 150 passes at alpha = 0.05 over a constant series of 7 samples
C9_Witness ==
    /\ pc = "return"
    /\ args.speed_kmh = [i \in 1..7 |-> Num(3)]
    /\ args.dt_sec = Rat(1, 5)
    /\ ret.locals.alpha = Rat(5, 100)
    /\ ret.done = 150
    /\ Lt(ret.locals.phi, Num(1))
    /\ ret.value = Num(3)

Dist(a, b) == IF Lt(a, b) THEN Sub(b, a) ELSE Sub(a, b)

\* C10: for a non-negative series the state never lies farther from mean_tail
\* than the last smoothed value does, after any number of passes of the loop
\* and whatever coefficient was fitted.
C10_PulledTowardMeanTail ==
    (pc \in {"loop", "return"} /\ ret.fitted /\ IsNonNegative(args.speed_kmh)) =>
        Le(Dist(ret.locals.s, ret.locals.mean_tail),
           Dist(ret.locals.smooth[Len(ret.locals.smooth)], ret.locals.mean_tail))

====
